---- MODULE Spec2Model ----
(***************************************************************************)
(* Inspection query service of the Quality Control Cockpit.                *)
(*                                                                         *)
(*   App2/app.py  get_inspections   (FastAPI, GET /api/inspections)        *)
(*   App1/app.py  load_inspections  (Streamlit) and its caller main        *)
(*   App2/services/warehouse.py  Warehouse.query                           *)
(*                                                                         *)
(* One request is followed from its entry point through its three Row      *)
(* Store statements (count, page, aggregate) to the value handed back to   *)
(* the caller.  The inspections table is an arbitrary snapshot that does   *)
(* not change while the request runs.                                      *)
(***************************************************************************)
EXTENDS Integers, Sequences, FiniteSets, TLC

\* ------------------------------------------------------------------ bounds

\* Records the table snapshot is drawn from.
NumRecords == 4
\* Largest page number requested.
MaxPage == 2
\* Largest per_page requested through the HTTP endpoint or a direct call.
MaxPerPage == 2
\* Largest number of filter parameters supplied with one request.
MaxPresent == 2
\* Largest number of inspections on the page whose images are loaded.
MaxImages == 2
\* Callers of one singleton at the same time.
NumCallers == 2
\* Clients or connections one singleton creates in a run.
MaxHandles == 3
\* Minutes the clock of the singletons runs.
MaxClock == 61
\* Pages the rows of one filter selection fill in the Streamlit page.
MaxPages == 3

\* --------------------------------------------------------------- constants

ITEMS_PER_PAGE == 8

\* Python's None, and SQL NULL in a string column.
None == "<None>"
\* None where the value would otherwise be a sequence of characters.
NoneSeq == <<None>>

\* Python truthiness of an Optional[str]: None and "" are falsy.
Truthy(v) == v # None /\ v # ""
TruthySeq(s) == s # NoneSeq /\ s # <<>>

\* ------------------------------------------------------------ stored data

\* Calendar dates in ascending order; a DATE column holds an index into it.
Dates == <<"2025-01-01", "2025-01-02", "2025-01-03">>

FACTORIES == <<"WUH-A79", "YAN-YT01">>
CAMERAS == <<"CAM-01", "CAM-02">>
Digits == <<"1", "2", "3", "4", "5", "6", "7", "8", "9">>

\* region = factory_id.split("-")[0]
RegionOf(factory_id) == IF factory_id = "WUH-A79" THEN "WUH" ELSE "YAN"

\* The factories table: one row per factory.
Factories == { [factory_id |-> FACTORIES[k], region |-> RegionOf(FACTORIES[k])] :
               k \in 1..Len(FACTORIES) }

Cycle(seq, k) == seq[((k - 1) % Len(seq)) + 1]

\* "INSP-2025-000001" shortened to three characters.
generate_inspection_id(index) == <<"I", "-", Digits[index]>>

\* The i-th inspection row.  The timestamp is (day, second of the day) and
\* date is the day of the timestamp; rows 1 and 2 share one timestamp.
InspectionRow(i) ==
    LET is_ok == (i % 3) # 2
        day == Cycle(<<1, 2, 3>>, (i + 1) \div 2)
    IN  [ inspection_id |-> generate_inspection_id(i),
          factory_id    |-> Cycle(FACTORIES, i),
          camera_id     |-> Cycle(CAMERAS, (i + 1) \div 2),
          timestamp     |-> [day |-> day, sec |-> IF i % 4 = 0 THEN 1 ELSE 0],
          prediction    |-> IF is_ok THEN "OK" ELSE "KO",
          defect_type   |-> IF is_ok THEN None ELSE "weld_crack",
          date          |-> day ]

AllRows == { InspectionRow(i) : i \in 1..NumRecords }

\* ------------------------------------------------------- WHERE clause

Term(col, op, val, pat) == [col |-> col, op |-> op, val |-> val, pat |-> pat]

\* where_clauses as the handler appends them, in order.
AppendIf(cond, seq, t) == IF cond THEN Append(seq, t) ELSE seq

where_clauses(a) ==
    LET w1 == AppendIf(Truthy(a.factory), <<>>,
                       Term("factory_id", "=", a.factory, <<>>))
        w2 == AppendIf(Truthy(a.camera), w1,
                       Term("camera_id", "=", a.camera, <<>>))
        w3 == AppendIf(Truthy(a.prediction), w2,
                       Term("prediction", "=", a.prediction, <<>>))
        w4 == AppendIf(Truthy(a.defect_type) /\ a.defect_type # "All", w3,
                       Term("defect_type", "=", a.defect_type, <<>>))
        w5 == AppendIf(TruthySeq(a.search), w4,
                       Term("inspection_id", "LIKE", "",
                            <<"%">> \o a.search \o <<"%">>))
        w6 == AppendIf(Truthy(a.date_from), w5,
                       Term("date", ">=", a.date_from, <<>>))
        w7 == AppendIf(Truthy(a.date_to), w6,
                       Term("date", "<=", a.date_to, <<>>))
    IN  w7

\* " AND ".join(where_clauses) if where_clauses else "1=1"
where_sql(a) ==
    IF where_clauses(a) # <<>> THEN where_clauses(a)
    ELSE <<Term("1", "=", "1", <<>>)>>

\* ------------------------------------------------- Row Store semantics

\* SQL LIKE: % matches any run of characters, _ any single character.
RECURSIVE Like(_, _)
Like(p, s) ==
    IF p = <<>> THEN s = <<>>
    ELSE IF Head(p) = "%"
         THEN Like(Tail(p), s) \/ (s # <<>> /\ Like(p, Tail(s)))
         ELSE /\ s # <<>>
              /\ (Head(p) = "_" \/ Head(p) = Head(s))
              /\ Like(Tail(p), Tail(s))

\* A string literal cast to DATE: its day, or 0 (NULL) when it is no date.
CastDate(str) ==
    IF \E d \in 1..Len(Dates) : Dates[d] = str
    THEN CHOOSE d \in 1..Len(Dates) : Dates[d] = str
    ELSE 0

\* One term of the WHERE clause on one inspections row; a comparison with
\* NULL is not true.
TermHolds(r, t) ==
    CASE t.col = "1"             -> TRUE
      [] t.col = "factory_id"    -> r.factory_id = t.val
      [] t.col = "camera_id"     -> r.camera_id = t.val
      [] t.col = "prediction"    -> r.prediction = t.val
      [] t.col = "defect_type"   -> r.defect_type # None /\ r.defect_type = t.val
      [] t.col = "inspection_id" -> Like(t.pat, r.inspection_id)
      [] t.col = "date" /\ t.op = ">=" ->
             CastDate(t.val) # 0 /\ r.date >= CastDate(t.val)
      [] t.col = "date" /\ t.op = "<=" ->
             CastDate(t.val) # 0 /\ r.date <= CastDate(t.val)

\* WHERE t1 AND t2 AND ...
Selected(tbl, w) == { r \in tbl : \A k \in 1..Len(w) : TermHolds(r, w[k]) }

\* ORDER BY timestamp DESC: every arrangement of the rows in which no row
\* precedes one with a later timestamp.  Rows with equal timestamps may come
\* in any order; the statement names no second sort key.
Later(t1, t2) == t1.day > t2.day \/ (t1.day = t2.day /\ t1.sec > t2.sec)

RECURSIVE OrderByTimestampDesc(_)
OrderByTimestampDesc(S) ==
    IF S = {} THEN {<<>>}
    ELSE UNION { { <<r>> \o rest : rest \in OrderByTimestampDesc(S \ {r}) } :
                 r \in { x \in S : \A y \in S : ~Later(y.timestamp, x.timestamp) } }

\* LIMIT limit OFFSET offset
LimitOffset(seq, limit, offset) ==
    IF offset >= Len(seq) THEN <<>>
    ELSE SubSeq(seq, offset + 1,
                IF offset + limit < Len(seq) THEN offset + limit ELSE Len(seq))

\* A cell of a result row: a number or NULL (None in the row dict).
Cell(n) == [null |-> FALSE, val |-> n]
NullCell == [null |-> TRUE, val |-> 0]

\* SUM(CASE WHEN prediction = p THEN 1 ELSE 0 END): NULL over zero rows.
SumCase(rows, p) ==
    IF rows = {} THEN NullCell
    ELSE Cell(Cardinality({ x \in rows : x.prediction = p }))

\* inspections i JOIN factories f ON i.factory_id = f.factory_id
\*   WHERE f.region = '{region}' AND {where_sql}
JoinRegion(tbl, region, w) ==
    { jr \in Selected(tbl, w) \X Factories :
        jr[1].factory_id = jr[2].factory_id /\ jr[2].region = region }

\* Both joined tables have a factory_id column, so an unqualified
\* factory_id in the joined statement cannot be resolved.
AmbiguousReference(w) == \E k \in 1..Len(w) : w[k].col = "factory_id"

\* The aggregate statement of the handler: its one result row.
stats_query(tbl, a) ==
    IF Truthy(a.region)
    THEN LET j == { jr[1] : jr \in JoinRegion(tbl, a.region, where_sql(a)) }
             n == Cardinality(JoinRegion(tbl, a.region, where_sql(a)))
         IN  [total |-> Cell(n), ok_count |-> SumCase(j, "OK"),
              ko_count |-> SumCase(j, "KO")]
    ELSE LET m == Selected(tbl, where_sql(a))
         IN  [total |-> Cell(Cardinality(m)), ok_count |-> SumCase(m, "OK"),
              ko_count |-> SumCase(m, "KO")]

\* The statement is rejected by the Row Store's analyser.
stats_query_rejected(a) ==
    Truthy(a.region) /\ AmbiguousReference(where_sql(a))

\* ------------------------------------------------------ statement text
\* The statement handed to Warehouse.query, as a sequence of pieces: the
\* fixed pieces of the f-string and the interpolated values.

\* One element of where_clauses as the f-string renders it.
TermText(t) ==
    CASE t.col = "1"             -> <<"1=1">>
      [] t.col = "inspection_id" -> <<"inspection_id LIKE '">> \o t.pat \o <<"'">>
      [] OTHER                   -> <<t.col, " ", t.op, " '", t.val, "'">>

\* " AND ".join(...)
RECURSIVE JoinAnd(_)
JoinAnd(w) ==
    IF Len(w) = 1 THEN TermText(w[1])
    ELSE TermText(w[1]) \o <<" AND ">> \o JoinAnd(Tail(w))

count_query(a) ==
    <<"SELECT COUNT(*) as count FROM inspections WHERE ">> \o JoinAnd(where_sql(a))

data_query(a, offset) ==
    <<"SELECT * FROM inspections WHERE ">> \o JoinAnd(where_sql(a))
    \o <<" ORDER BY timestamp DESC LIMIT ", ToString(a.per_page),
         " OFFSET ", ToString(offset)>>

stats_query_text(a) ==
    IF Truthy(a.region)
    THEN <<"SELECT COUNT(*), SUM(OK), SUM(KO) FROM inspections i JOIN factories f",
           " ON i.factory_id = f.factory_id WHERE f.region = '", a.region,
           "' AND ">> \o JoinAnd(where_sql(a))
    ELSE <<"SELECT COUNT(*), SUM(OK), SUM(KO) FROM inspections WHERE ">>
         \o JoinAnd(where_sql(a))

\* One call of execute_statement: the statement text and the bound
\* parameters (the call passes none).
Statement(kind, text) == [kind |-> kind, text |-> text, parameters |-> <<>>]

\* ---------------------------------------------------------- the handler
\* get_inspections (App2) and load_inspections (App1) share the text of the
\* WHERE clause, the count and page statements, the formatting loop and the
\* envelope; they differ in the region branch of the aggregate statement
\* (App2 only) and in the except branch.

\* Offset with the page taken as zero-based.
Offset_ZeroBased(page, per_page) == page * per_page

\* offset = (page - 1) * per_page
Offset(page, per_page) == (page - 1) * per_page

\* total_pages by plain floor division.
TotalPages_Floor(count, per_page) == count \div per_page

\* total_pages = (total_count + per_page - 1) // per_page
TotalPages(count, per_page) == (count + per_page - 1) \div per_page

\* One element of "inspections": the row with its date as a string.
FormatInspection(r) ==
    [ inspection_id |-> r.inspection_id,
      factory_id    |-> r.factory_id,
      camera_id     |-> r.camera_id,
      timestamp     |-> r.timestamp,
      prediction    |-> r.prediction,
      defect_type   |-> r.defect_type,
      date          |-> Dates[r.date] ]

FormatInspections(rows) == [ k \in 1..Len(rows) |-> FormatInspection(rows[k]) ]

\* int(x) raises TypeError on None.
IntRaises(c) == c.null

Envelope(a, count, insp, st) ==
    [ kind        |-> "envelope",
      error       |-> FALSE,
      inspections |-> insp,
      pagination  |-> [ page |-> a.page, per_page |-> a.per_page,
                        total_count |-> count,
                        total_pages |-> TotalPages(count, a.per_page) ],
      stats       |-> [ total |-> st.total.val, filtered |-> count,
                        ok_count |-> st.ok_count.val,
                        ko_count |-> st.ko_count.val ] ]

\* load_inspections' except branch: st.error and the empty envelope.
EmptyEnvelope(a) ==
    [ kind        |-> "envelope",
      error       |-> TRUE,
      inspections |-> <<>>,
      pagination  |-> [ page |-> 1, per_page |-> a.per_page,
                        total_count |-> 0, total_pages |-> 0 ],
      stats       |-> [ total |-> 0, filtered |-> 0, ok_count |-> 0,
                        ko_count |-> 0 ] ]

\* get_inspections' except branch: HTTPException(status_code=500).
Http500 ==
    [ kind        |-> "http500",
      error       |-> TRUE,
      inspections |-> <<>>,
      pagination  |-> [ page |-> 0, per_page |-> 0, total_count |-> 0,
                        total_pages |-> 0 ],
      stats       |-> [ total |-> 0, filtered |-> 0, ok_count |-> 0,
                        ko_count |-> 0 ] ]

NoResponse == [Http500 EXCEPT !.kind = "none", !.error = FALSE]

\* ------------------------------------------------------------- state

VARIABLES
    table,        \* the inspections table of the Row Store
    entry,        \* "none", "http" (App2 endpoint), "call" (App1
                  \* load_inspections called directly), "main" (App1 page)
    raw,          \* what the caller supplied: query parameters, or the
                  \* widget selections and the page of the URL
    args,         \* the handler's parameters
    pc,           \* "idle", "count", "page", "stats", "done"
    total_count,  \* result of the count statement
    inspections,  \* the formatted rows of the page statement
    outage,       \* a Row Store statement of this request raised
    resp,         \* what the caller receives
    sent,         \* the calls of execute_statement of this request, in order
    query_string, \* page, per_page and the dates as they stand in the URL
    ui,           \* what the Streamlit page did with the envelope
    \* the image fan-out of one page
    variant,      \* "App1" (ImageLoaderThread) or "simple" (PhotoLoader)
    paths,        \* image_path of each inspection of the page, in order
    threads,      \* the loader threads, in the order they were appended
    fpc,          \* "idle", "start", "join", "render", "done"
    now,          \* seconds since the first thread was started
    waits,        \* per joined thread: when join returned, and whether
                  \* the thread was still running then
    shown,        \* what was rendered in each slot
    downloads,    \* the image paths handed to w.files.download
    \* one call of load_image_from_volume or one GET /api/image
    image_call,   \* "none", "App1" (load_image_from_volume), "App2"
    path_param,   \* the path argument; NoneSeq when the URL has none
    ipc,          \* "idle", "download", "stream", "done"
    image_resp,   \* what the caller receives, and what the Blob Store did
    image_cache,  \* st.cache_data of load_image_from_volume: the results
                  \* kept, as pairs of argument and return value
    \* one singleton service and the callers of its query
    service,      \* "none", "Warehouse" or "Lakebase"
    callers,      \* the threads that call query
    clock,        \* datetime.now(), in minutes
    handles,      \* every client or connection created: whether it has
                  \* been closed
    connection,   \* cls._client or cls._connection: an index of handles, 0
                  \* for None
    connection_time, \* cls._connection_time; -1 for None
    spc,          \* where each caller stands in query
    call,         \* per caller, what its current call saw and did
    \* one browser session of the Streamlit page, run after run
    matching,     \* per prediction selected, the rows the Row Store counts
    session,      \* st.session_state, the widgets and the URL
    run           \* the last run of main: what it found, asked and showed

queryVars == <<table, entry, raw, args, pc, total_count, inspections, outage,
               resp, sent, query_string, ui>>

fetchVars == <<variant, paths, threads, fpc, now, waits, shown, downloads>>

imageVars == <<image_call, path_param, ipc, image_resp, image_cache>>

singletonVars == <<service, callers, clock, handles, connection,
                   connection_time, spc, call>>

sessionVars == <<matching, session, run>>

vars == <<queryVars, fetchVars, imageVars, singletonVars, sessionVars>>

\* What the actions of one part leave alone.
nonQueryVars == <<fetchVars, imageVars, singletonVars, sessionVars>>
nonFetchVars == <<queryVars, imageVars, singletonVars, sessionVars>>
nonImageVars == <<queryVars, variant, paths, threads, fpc, now, waits, shown,
                  singletonVars, sessionVars>>
nonSingletonVars == <<queryVars, fetchVars, imageVars, sessionVars>>
nonSessionVars == <<queryVars, fetchVars, imageVars, singletonVars>>

\* ------------------------------------------------------------ inputs

Pages == 1..MaxPage
PerPages == 1..MaxPerPage

\* Values a caller may send for each query parameter (None: not sent).
RegionValues == {None, "All", "WUH"}
FactoryValues == {None, "All", "WUH-A79"}
CameraValues == {None, "All", "CAM-01"}
PredictionValues == {None, "All", "OK"}
DefectValues == {None, "All", "weld_crack"}
SearchValues == {NoneSeq, <<>>, <<"2">>, <<"_">>}
DateFromValues == {None, "", "2025-01-02"}
DateToValues == {None, "2025-01-02"}

Params(regions, pages, per_pages) ==
    [ region : regions, factory : FactoryValues, camera : CameraValues,
      prediction : PredictionValues, defect_type : DefectValues,
      search : SearchValues, date_from : DateFromValues,
      date_to : DateToValues, page : pages, per_page : per_pages ]

B2N(b) == IF b THEN 1 ELSE 0

\* Number of filter parameters the caller sent.
NumSent(p) ==
    B2N(p.region # None) + B2N(p.factory # None) + B2N(p.camera # None)
    + B2N(p.prediction # None) + B2N(p.defect_type # None)
    + B2N(p.search # NoneSeq) + B2N(p.date_from # None)
    + B2N(p.date_to # None)

\* Widget states of the Streamlit sidebar; the factory list is narrowed to
\* the selected region.
FactoryOptions(selected_region) ==
    {"All"} \cup { f.factory_id : f \in { x \in Factories :
                     selected_region = "All" \/ x.region = selected_region } }

Selections ==
    { s \in [ region : {"All", "WUH"}, factory : {"All", "WUH-A79", "YAN-YT01"},
              camera : {"All", "CAM-01"}, prediction : {"All", "OK"},
              defect_type : {"All", "weld_crack"},
              search : {<<>>, <<"2">>, <<"_">>},
              date_from : {None, "2025-01-02"}, date_to : {None, "2025-01-02"},
              page : Pages, per_page : {ITEMS_PER_PAGE} ] :
        s.factory \in FactoryOptions(s.region) }

\* Number of widgets moved away from their default.
NumSelected(s) ==
    B2N(s.region # "All") + B2N(s.factory # "All") + B2N(s.camera # "All")
    + B2N(s.prediction # "All") + B2N(s.defect_type # "All")
    + B2N(s.search # <<>>) + B2N(s.date_from # None) + B2N(s.date_to # None)

\* main: "Convert filters" and the call of load_inspections.
ConvertFilters(s) ==
    [ region      |-> None,
      factory     |-> IF s.factory = "All" THEN None ELSE s.factory,
      camera      |-> IF s.camera = "All" THEN None ELSE s.camera,
      prediction  |-> IF s.prediction = "All" THEN None ELSE s.prediction,
      defect_type |-> IF s.defect_type = "All" THEN None ELSE s.defect_type,
      search      |-> IF s.search # <<>> THEN s.search ELSE NoneSeq,
      date_from   |-> s.date_from,
      date_to     |-> s.date_to,
      page        |-> s.page,
      per_page    |-> ITEMS_PER_PAGE ]

\* The URL carries none of page, per_page, date_from and date_to.
NoQueryString ==
    [page |-> NoneSeq, per_page |-> NoneSeq, date_from |-> None,
     date_to |-> None]

\* The page has not been rendered.
NoUi == [shown |-> "none", controls |-> FALSE, rerun |-> FALSE, page |-> 0]

\* No image fan-out is running.
FetchIdle ==
    /\ variant = "none"
    /\ paths = <<>>
    /\ threads = <<>>
    /\ fpc = "idle"
    /\ now = 0
    /\ waits = <<>>
    /\ shown = <<>>
    /\ downloads = {}

\* No image is being served.
NoImageResponse ==
    [ status |-> 0, media_type |-> None, body |-> <<>>, complete |-> FALSE,
      fetch |-> "none" ]

ImageIdle ==
    /\ image_call = "none"
    /\ path_param = NoneSeq
    /\ ipc = "idle"
    /\ image_resp = NoImageResponse
    /\ image_cache = {}

\* A caller that has made no call.
NoCall ==
    [ checked |-> FALSE, seen |-> 0, seen_time |-> -1, created |-> 0,
      used |-> 0, used_time |-> -1 ]

\* No singleton is in use.
SingletonIdle ==
    /\ service = "none"
    /\ callers = {}
    /\ clock = 0
    /\ handles = <<>>
    /\ connection = 0
    /\ connection_time = -1
    /\ spc = <<>>
    /\ call = <<>>

\* st.session_state.last_filters = {}
NoFilters == [ region |-> None, prediction |-> None ]

\* The widgets as a new session has them.
DefaultWidgets == [ region |-> "All", prediction |-> "All" ]

\* No answer of load_inspections.
NoData ==
    [ rows |-> 0, page |-> 0, total_pages |-> 0, total_count |-> 0,
      error |-> FALSE ]

\* No run of main yet.
NoRun ==
    [ via |-> "none", ended |-> "none", recorded |-> NoFilters,
      current_filters |-> NoFilters, url |-> NoneSeq, current_page |-> 0,
      before |-> NoData, data |-> NoData,
      controls |-> [ shown |-> FALSE, prev_link |-> FALSE, prev_page |-> 0,
                     next_link |-> FALSE, next_page |-> 0 ] ]

\* No browser has opened the page.
SessionIdle ==
    /\ matching = <<>>
    /\ session = [ open |-> FALSE, last_filters |-> NoFilters,
                   widgets |-> DefaultWidgets, url |-> NoneSeq,
                   rerun |-> FALSE ]
    /\ run = NoRun

NoArgs ==
    [ region |-> None, factory |-> None, camera |-> None, prediction |-> None,
      defect_type |-> None, search |-> NoneSeq, date_from |-> None,
      date_to |-> None, page |-> 1, per_page |-> 1 ]

\* ------------------------------------------------------------ actions

Init ==
    /\ table \in SUBSET AllRows
    /\ entry = "none"
    /\ raw = NoArgs
    /\ args = NoArgs
    /\ pc = "idle"
    /\ total_count = 0
    /\ inspections = <<>>
    /\ outage = FALSE
    /\ resp = NoResponse
    /\ sent = <<>>
    /\ query_string = NoQueryString
    /\ ui = NoUi
    /\ FetchIdle
    /\ ImageIdle
    /\ SingletonIdle
    /\ SessionIdle

Enter(e, r, a) ==
    /\ entry' = e
    /\ raw' = r
    /\ args' = a
    /\ pc' = "count"
    /\ UNCHANGED <<table, total_count, inspections, outage, resp, sent, ui>>
    /\ UNCHANGED nonQueryVars

\* GET /api/inspections: the query parameters become the arguments.
get_inspections ==
    /\ pc = "idle"
    /\ \E p \in Params(RegionValues, Pages, PerPages) :
        /\ NumSent(p) <= MaxPresent
        /\ Enter("http", p, p)
    /\ UNCHANGED query_string

\* load_inspections called with keyword arguments (it has no region).
load_inspections ==
    /\ pc = "idle"
    /\ \E p \in Params({None}, Pages, PerPages) :
        /\ NumSent(p) <= MaxPresent
        /\ Enter("call", p, p)
    /\ UNCHANGED query_string

\* One run of the Streamlit page up to its call of load_inspections.
main ==
    /\ pc = "idle"
    /\ \E s \in Selections :
        /\ NumSelected(s) <= MaxPresent
        /\ Enter("main", s, ConvertFilters(s))
    /\ UNCHANGED query_string

\* The statement the handler runs at each of its three calls.
StatementAt(at, a) ==
    CASE at = "count" -> Statement("count", count_query(a))
      [] at = "page"  -> Statement("page",
                                   data_query(a, Offset(a.page, a.per_page)))
      [] at = "stats" -> Statement("stats", stats_query_text(a))

\* Warehouse.query: the statement goes to execute_statement, which answers
\* or raises.
Execute(raised) ==
    sent' = Append(sent, [ statement |-> StatementAt(pc, args),
                           raised    |-> raised ])

\* An except branch that hands back what the handler had collected.
OnException_Partial(e, a) ==
    IF e = "http" THEN Http500
    ELSE [ EmptyEnvelope(a) EXCEPT !.inspections = inspections,
                                   !.pagination.total_count = total_count ]

\* What the except branch of the running handler hands back.
OnException(e, a) == IF e = "http" THEN Http500 ELSE EmptyEnvelope(a)

\* The handler's except branch answers and the request is over.
Raise_Retry ==
    /\ pc' = pc
    /\ resp' = resp
    /\ UNCHANGED <<table, entry, raw, args, total_count, inspections,
                   query_string, ui>>
    /\ UNCHANGED nonQueryVars

\* Warehouse.query raises: the handler's except branch answers.
Raise ==
    /\ pc' = "done"
    /\ resp' = OnException(entry, args)
    /\ UNCHANGED <<table, entry, raw, args, total_count, inspections,
                   query_string, ui>>
    /\ UNCHANGED nonQueryVars

\* The Row Store fails on the statement the request is about to run.
RowStoreFails ==
    /\ pc \in {"count", "page", "stats"}
    /\ Execute(TRUE)
    /\ outage' = TRUE
    /\ Raise

\* SELECT COUNT(*) ... WHERE {where_sql}
CountQuery ==
    /\ pc = "count"
    /\ total_count' = Cardinality(Selected(table, where_sql(args)))
    /\ pc' = "page"
    /\ Execute(FALSE)
    /\ UNCHANGED <<table, entry, raw, args, inspections, outage, resp,
                   query_string, ui>>
    /\ UNCHANGED nonQueryVars

\* SELECT ... WHERE {where_sql} ORDER BY timestamp DESC LIMIT .. OFFSET ..
PageQuery ==
    /\ pc = "page"
    /\ Offset(args.page, args.per_page) >= 0
    /\ \E ordered \in OrderByTimestampDesc(Selected(table, where_sql(args))) :
          inspections' = FormatInspections(
              LimitOffset(ordered, args.per_page,
                          Offset(args.page, args.per_page)))
    /\ pc' = "stats"
    /\ Execute(FALSE)
    /\ UNCHANGED <<table, entry, raw, args, total_count, outage, resp,
                   query_string, ui>>
    /\ UNCHANGED nonQueryVars

\* The aggregate statement is rejected (ambiguous column).
StatsQueryRejected ==
    /\ pc = "stats"
    /\ stats_query_rejected(args)
    /\ Execute(TRUE)
    /\ Raise
    /\ UNCHANGED outage

\* The aggregate statement answers, but int() of a NULL sum raises.
StatsTypeError ==
    /\ pc = "stats"
    /\ ~stats_query_rejected(args)
    /\ LET st == stats_query(table, args)
       IN  IntRaises(st.total) \/ IntRaises(st.ok_count) \/ IntRaises(st.ko_count)
    /\ Execute(FALSE)
    /\ Raise
    /\ UNCHANGED outage

\* The aggregate statement answers and the envelope is returned.
StatsQuery ==
    /\ pc = "stats"
    /\ ~stats_query_rejected(args)
    /\ LET st == stats_query(table, args)
       IN  /\ ~IntRaises(st.total)
           /\ ~IntRaises(st.ok_count)
           /\ ~IntRaises(st.ko_count)
           /\ resp' = Envelope(args, total_count, inspections, st)
    /\ pc' = "done"
    /\ Execute(FALSE)
    /\ UNCHANGED <<table, entry, raw, args, total_count, inspections, outage,
                   query_string, ui>>
    /\ UNCHANGED nonQueryVars

\* main, after load_inspections has returned: the branch on "inspections"
\* and, in its else branch only, the page reset and the pagination
\* controls. The image threads of the else branch are the subject of
\* SpecFetch.
Display(data) ==
    LET pagination == data.pagination
    IN  IF data.inspections = <<>>
        THEN [ shown |-> "info", controls |-> FALSE, rerun |-> FALSE,
               page |-> raw.page ]
        ELSE IF /\ pagination.page > pagination.total_pages
                /\ pagination.total_pages > 0
             THEN [ shown |-> "grid", controls |-> FALSE, rerun |-> TRUE,
                    page |-> 1 ]
             ELSE [ shown |-> "grid", controls |-> TRUE, rerun |-> FALSE,
                    page |-> raw.page ]

Render ==
    /\ entry = "main"
    /\ pc = "done"
    /\ ui.shown = "none"
    /\ ui' = Display(resp)
    /\ UNCHANGED <<table, entry, raw, args, pc, total_count, inspections,
                   outage, resp, sent, query_string>>
    /\ UNCHANGED nonQueryVars

Next ==
    \/ get_inspections
    \/ load_inspections
    \/ main
    \/ RowStoreFails
    \/ CountQuery
    \/ PageQuery
    \/ StatsQueryRejected
    \/ StatsTypeError
    \/ StatsQuery
    \/ Render

Spec == Init /\ [][Next]_vars

\* ------------------------------------------- the two entry points, from
\* the URL: page and per_page arrive as text, and a date may be any string.

Decimal == <<"0", "1", "2", "3", "4", "5", "6", "7", "8", "9">>

IsDigit(c) == \E k \in 1..Len(Decimal) : Decimal[k] = c
DigitValue(c) == (CHOOSE k \in 1..Len(Decimal) : Decimal[k] = c) - 1

\* int(text) accepts an optional sign followed by digits.
IsInt(text) ==
    LET digits == IF text # <<>> /\ Head(text) = "-" THEN Tail(text) ELSE text
    IN  /\ digits # <<>>
        /\ \A k \in 1..Len(digits) : IsDigit(digits[k])

RECURSIVE ParseDigits(_, _)
ParseDigits(digits, acc) ==
    IF digits = <<>> THEN acc
    ELSE ParseDigits(Tail(digits), Len(Decimal) * acc + DigitValue(Head(digits)))

\* int(text)
ParseInt(text) ==
    IF Head(text) = "-" THEN 0 - ParseDigits(Tail(text), 0)
    ELSE ParseDigits(text, 0)

\* page: int = Query(1, ge=1); per_page: int = Query(8, ge=1, le=100)
page_default == 1
page_ge == 1
per_page_default == 8
per_page_ge == 1
per_page_le == 100

\* What a URL may carry.
PageTexts == {NoneSeq, <<"0">>, <<"1">>, <<"2">>, <<"-", "1">>, <<"x">>}
PerPageTexts == {NoneSeq, <<"0">>, <<"1">>, <<"1", "0", "0">>, <<"1", "0", "1">>}
DateTexts == {None, "2025-01-02", "2025-02-30"}
QueryStrings ==
    [page : PageTexts, per_page : PerPageTexts, date_from : DateTexts,
     date_to : {None, "2025-02-30"}]

\* FastAPI's check of an int parameter: not an integer, or below ge.
FailsGe(text, ge) ==
    /\ text # NoneSeq
    /\ (~IsInt(text) \/ ParseInt(text) < ge)

\* FastAPI's check of an int parameter: above le.
FailsLe(text, le) ==
    /\ text # NoneSeq
    /\ IsInt(text)
    /\ ParseInt(text) > le

\* FastAPI's value of an int parameter that passed the check.
QueryValue(text, default) == IF text = NoneSeq THEN default ELSE ParseInt(text)

\* RequestValidationError: FastAPI answers 422 and the handler is not run.
Http422 == [Http500 EXCEPT !.kind = "http422"]

\* An exception main does not catch: Streamlit shows it and the script stops.
Uncaught == [Http500 EXCEPT !.kind = "exception"]

\* The request ends before the handler runs.
Refuse(e, q, r) ==
    /\ entry' = e
    /\ query_string' = q
    /\ resp' = r
    /\ pc' = "done"
    /\ UNCHANGED <<table, raw, args, total_count, inspections, outage, sent, ui>>
    /\ UNCHANGED nonQueryVars

\* GET /api/inspections?page=..&per_page=..&date_from=..&date_to=..
HttpRequest ==
    /\ pc = "idle"
    /\ \E q \in QueryStrings :
          IF \/ FailsGe(q.page, page_ge)
             \/ FailsGe(q.per_page, per_page_ge)
             \/ FailsLe(q.per_page, per_page_le)
          THEN Refuse("http", q, Http422)
          ELSE LET a == [ NoArgs EXCEPT
                            !.date_from = q.date_from,
                            !.date_to   = q.date_to,
                            !.page      = QueryValue(q.page, page_default),
                            !.per_page  = QueryValue(q.per_page,
                                                     per_page_default) ]
               IN  /\ Enter("http", a, a)
                   /\ query_string' = q

\* The Streamlit page opened at ?page=..: the date widgets hold a date or
\* nothing, the other widgets their defaults, and
\* current_page = int(query_params.get("page", 1)).
StreamlitRequest ==
    /\ pc = "idle"
    /\ \E text \in PageTexts, date_from \in {None, "2025-01-02"} :
          LET q == [ NoQueryString EXCEPT !.page = text ]
          IN  IF text # NoneSeq /\ ~IsInt(text)
              THEN Refuse("main", q, Uncaught)
              ELSE LET s == [ region |-> "All", factory |-> "All",
                              camera |-> "All", prediction |-> "All",
                              defect_type |-> "All", search |-> <<>>,
                              date_from |-> date_from, date_to |-> None,
                              page |-> QueryValue(text, page_default),
                              per_page |-> ITEMS_PER_PAGE ]
                   IN  /\ Enter("main", s, ConvertFilters(s))
                       /\ query_string' = q

\* The Row Store cannot cast a date literal of the WHERE clause to DATE and
\* rejects the statement (ANSI mode); without ANSI mode the cast is NULL
\* and the statement is answered, as CastDate has it.
InvalidDateRejected ==
    /\ pc = "count"
    /\ \E k \in 1..Len(where_sql(args)) :
          /\ where_sql(args)[k].col = "date"
          /\ CastDate(where_sql(args)[k].val) = 0
    /\ Execute(TRUE)
    /\ Raise
    /\ UNCHANGED outage

\* The Row Store rejects a negative OFFSET.
NegativeOffsetRejected ==
    /\ pc = "page"
    /\ Offset(args.page, args.per_page) < 0
    /\ Execute(TRUE)
    /\ Raise
    /\ UNCHANGED outage

NextEntry ==
    \/ HttpRequest
    \/ StreamlitRequest
    \/ RowStoreFails
    \/ InvalidDateRejected
    \/ CountQuery
    \/ NegativeOffsetRejected
    \/ PageQuery
    \/ StatsTypeError
    \/ StatsQuery
    \/ Render

SpecEntry == Init /\ [][NextEntry]_vars

\* --------------------------------------------------- the image fan-out
\* main of App1 (ImageLoaderThread) and of simpleApps/app_multithreading
\* (PhotoLoader): one thread per inspection of the page, all started, then
\* joined one after the other with a timeout, then one render pass.

ALLOWED_PREFIX == "/Volumes/serverless_opm_catalog/opm/quality/images-highres/"

\* thread.join(timeout=10)
JOIN_TIMEOUT == 10

\* An image path: its directory and its file name.
PathValues ==
    { <<ALLOWED_PREFIX, "photo1.jpg">>, <<ALLOWED_PREFIX, "photo2.jpg">>,
      <<"/tmp/", "photo1.jpg">> }

\* The pages: one to MaxImages inspections, by their image_path.
RECURSIVE PathLists(_)
PathLists(n) ==
    IF n = 0 THEN {<<>>}
    ELSE LET shorter == PathLists(n - 1)
         IN  shorter \cup { Append(l, p) : l \in { x \in shorter : Len(x) = n - 1 },
                                            p \in PathValues }

\* What the Blob Store holds under a path.
FileContents(path) == <<"bytes of", path[1], path[2]>>

\* Thread.__init__ and start(): the thread runs, nothing is loaded yet.
Started(image_path, at) ==
    [ image_path |-> image_path, image_bytes |-> None, error |-> None,
      alive |-> TRUE, started_at |-> at, rank |-> 0, fetch |-> "pending" ]

\* load_image_from_volume answers None without a download: the path is
\* empty or lies outside ALLOWED_PREFIX. load_photo has no such check.
NotDownloaded(v, image_path) == v = "App1" /\ image_path[1] # ALLOWED_PREFIX

\* run(): what the thread holds when it ends. The download answers the
\* file or raises; load_image_from_volume turns a raise into None, while
\* load_photo lets it through to run's except branch. fetch records what
\* the Blob Store did: "bytes", "raise", or "refused" when it was not asked.
Ran(v, t, outcome, rank) ==
    [ t EXCEPT
        !.alive = FALSE,
        !.rank  = rank,
        !.fetch = IF NotDownloaded(v, t.image_path) THEN "refused" ELSE outcome,
        !.image_bytes = IF outcome = "bytes" /\ ~NotDownloaded(v, t.image_path)
                        THEN FileContents(t.image_path) ELSE None,
        !.error = IF outcome = "raise" /\ v = "simple" THEN "error" ELSE None ]

\* When the join of the thread now waited for began: the start loop takes
\* no time and each join begins when the one before it returned.
JoinStart == IF waits = <<>> THEN 0 ELSE waits[Len(waits)].at

\* The thread shown in slot i reversed.
ThreadFor_Reversed(i, n) == n - i + 1

\* threads[i + j] next to inspections[i + j]; zip(threads, inspections)
ThreadFor(i, n) == i

\* One slot of the grid, from the thread's fields as they are when the
\* render pass reads them. App1 writes the badge, the id and the metadata
\* rows under whatever it showed for the image; the simple app writes its
\* captions only in the branch that shows the photo.
Slot(v, t) ==
    IF t.image_bytes # None
    THEN [kind |-> "image", bytes |-> t.image_bytes, details |-> TRUE]
    ELSE IF v = "simple" /\ t.error # None
         THEN [kind |-> "error", bytes |-> None, details |-> FALSE]
    ELSE IF v = "simple"
         THEN [kind |-> "timeout", bytes |-> None, details |-> FALSE]
    ELSE [kind |-> "not available", bytes |-> None, details |-> TRUE]

\* No inspection query is running.
QueryIdle ==
    /\ table = {}
    /\ entry = "none"
    /\ raw = NoArgs
    /\ args = NoArgs
    /\ pc = "idle"
    /\ total_count = 0
    /\ inspections = <<>>
    /\ outage = FALSE
    /\ resp = NoResponse
    /\ sent = <<>>
    /\ query_string = NoQueryString
    /\ ui = NoUi

\* The page has its inspections and is about to load their images.
InitFetch ==
    /\ QueryIdle
    /\ SingletonIdle
    /\ SessionIdle
    /\ variant \in {"App1", "simple"}
    /\ ImageIdle
    /\ paths \in PathLists(MaxImages) \ {<<>>}
    /\ threads = <<>>
    /\ fpc = "start"
    /\ now = 0
    /\ waits = <<>>
    /\ shown = <<>>
    /\ downloads = {}

\* A start loop that waits for each thread right after starting it.
StartThread_ThenJoin ==
    /\ fpc = "start"
    /\ threads' = Append(threads, Started(paths[Len(threads) + 1], now))
    /\ fpc' = "join"
    /\ UNCHANGED <<variant, paths, now, waits, shown, downloads>>
    /\ UNCHANGED nonFetchVars

\* One round of the start loop.
StartThread ==
    /\ fpc = "start"
    /\ threads' = Append(threads, Started(paths[Len(threads) + 1], now))
    /\ fpc' = IF Len(threads) + 1 = Len(paths) THEN "join" ELSE "start"
    /\ UNCHANGED <<variant, paths, now, waits, shown, downloads>>
    /\ UNCHANGED nonFetchVars

\* A running thread ends, at whatever time its download takes.
ThreadRuns ==
    /\ \E k \in 1..Len(threads), outcome \in {"bytes", "raise"} :
          /\ threads[k].alive
          /\ threads' =
               [ threads EXCEPT ![k] =
                   Ran(variant, @, outcome,
                       1 + Cardinality({ j \in 1..Len(threads) :
                                           ~threads[j].alive })) ]
          /\ downloads' =
               IF NotDownloaded(variant, threads[k].image_path) THEN downloads
               ELSE downloads \cup {threads[k].image_path}
    /\ UNCHANGED <<variant, paths, fpc, now, waits, shown>>
    /\ UNCHANGED nonFetchVars

\* A second passes while join blocks: the thread waited for is running
\* and the timeout has not expired.
Tick ==
    /\ fpc = "join"
    /\ threads[Len(waits) + 1].alive
    /\ now - JoinStart < JOIN_TIMEOUT
    /\ now' = now + 1
    /\ UNCHANGED <<variant, paths, threads, fpc, waits, shown, downloads>>
    /\ UNCHANGED nonFetchVars

\* A join without a timeout: it returns only when the thread has ended.
Join_NoTimeout ==
    /\ fpc = "join"
    /\ LET t == threads[Len(waits) + 1]
       IN  /\ ~t.alive
           /\ waits' = Append(waits, [at |-> now, expired |-> t.alive])
    /\ fpc' = IF Len(waits) + 1 = Len(threads) THEN "render" ELSE "join"
    /\ UNCHANGED <<variant, paths, threads, now, shown, downloads>>
    /\ UNCHANGED nonFetchVars

\* thread.join(timeout=10) returns: the thread has ended or the timeout
\* has expired. Nothing of it is kept by the program; waits records it.
Join ==
    /\ fpc = "join"
    /\ LET t == threads[Len(waits) + 1]
       IN  /\ ~t.alive \/ now - JoinStart >= JOIN_TIMEOUT
           /\ waits' = Append(waits, [at |-> now, expired |-> t.alive])
    /\ fpc' = IF Len(waits) + 1 = Len(threads) THEN "render" ELSE "join"
    /\ UNCHANGED <<variant, paths, threads, now, shown, downloads>>
    /\ UNCHANGED nonFetchVars

\* A render pass that stops at the first slot without an image.
RenderImages_StopAtFailure ==
    /\ fpc = "render"
    /\ LET drawn == { i \in 1..Len(paths) :
                        \A j \in 1..i : threads[j].image_bytes # None }
       IN  shown' = [ i \in 1..Cardinality(drawn) |->
                        Slot(variant, threads[ThreadFor(i, Len(paths))]) ]
    /\ fpc' = "done"
    /\ UNCHANGED <<variant, paths, threads, now, waits, downloads>>
    /\ UNCHANGED nonFetchVars

\* The render pass over the grid.
RenderImages ==
    /\ fpc = "render"
    /\ shown' = [ i \in 1..Len(paths) |->
                    Slot(variant, threads[ThreadFor(i, Len(paths))]) ]
    /\ fpc' = "done"
    /\ UNCHANGED <<variant, paths, threads, now, waits, downloads>>
    /\ UNCHANGED nonFetchVars

\* ------------------------------------------------ one image at a time
\* load_image_from_volume (App1, behind st.cache_data) and GET /api/image
\* (App2 stream_image), called one after the other.

\* What a caller may pass as the path: nothing (NoneSeq), the empty string,
\* files under the allowed prefix, a file elsewhere, and a directory that
\* lacks the closing slash of the prefix.
ImagePaths ==
    { NoneSeq, <<>>,
      <<ALLOWED_PREFIX, "photo1.jpg">>, <<ALLOWED_PREFIX, "notes.txt">>,
      <<"/tmp/", "photo1.jpg">>,
      <<"/Volumes/serverless_opm_catalog/opm/quality/images-highres", ".jpg">> }

\* The check without its prefix test.
Refused_EmptyOnly(p) == p = NoneSeq \/ p = <<>>

\* `not path`, or `not path.startswith(ALLOWED_PREFIX)`
Refused(p) == p = NoneSeq \/ p = <<>> \/ p[1] # ALLOWED_PREFIX

\* Path(path).suffix.lower()
Suffix(p) ==
    CASE p[2] \in {"photo1.jpg", "photo2.jpg", ".jpg"} -> ".jpg"
      [] p[2] = "notes.txt" -> ".txt"
      [] OTHER -> ""

\* content_type_map.get(ext, 'application/octet-stream')
content_type(ext) ==
    CASE ext \in {".jpg", ".jpeg"} -> "image/jpeg"
      [] ext = ".png"  -> "image/png"
      [] ext = ".gif"  -> "image/gif"
      [] ext = ".webp" -> "image/webp"
      [] OTHER -> "application/octet-stream"

\* The value st.cache_data holds for an argument.
Cached(p) == (CHOOSE c \in image_cache : c.arg = p).value

\* load_image_from_volume(image_path), the whole call: a cached value is
\* returned as it is; otherwise the two checks, then the download, whose
\* exception becomes None; the value returned is cached.
load_image_from_volume ==
    /\ ipc = "idle"
    /\ \E p \in ImagePaths, outcome \in {"bytes", "raise"} :
          LET hit    == \E c \in image_cache : c.arg = p
              asked  == ~hit /\ ~Refused(p)
              value  == IF hit THEN Cached(p)
                        ELSE IF asked /\ outcome = "bytes" THEN FileContents(p)
                        ELSE NoneSeq
          IN  /\ path_param' = p
              /\ downloads' = IF asked THEN downloads \cup {p} ELSE downloads
              /\ image_cache' = IF hit THEN image_cache
                                ELSE image_cache \cup {[arg |-> p, value |-> value]}
              /\ image_resp' = [ NoImageResponse EXCEPT
                                   !.body = value,
                                   !.complete = TRUE,
                                   !.fetch = IF asked THEN outcome ELSE "none" ]
    /\ image_call' = "App1"
    /\ ipc' = "done"
    /\ UNCHANGED nonImageVars

\* GET /api/image: FastAPI answers 422 when the required parameter is not
\* there; the handler answers 400 from its two checks, or goes on to the
\* download.
stream_image ==
    /\ ipc = "idle"
    /\ \E p \in ImagePaths :
          /\ path_param' = p
          /\ IF p = NoneSeq
             THEN /\ image_resp' = [NoImageResponse EXCEPT !.status = 422,
                                                          !.complete = TRUE]
                  /\ ipc' = "done"
             ELSE IF Refused(p)
             THEN /\ image_resp' = [NoImageResponse EXCEPT !.status = 400,
                                                          !.complete = TRUE]
                  /\ ipc' = "done"
             ELSE /\ image_resp' = NoImageResponse
                  /\ ipc' = "download"
    /\ image_call' = "App2"
    /\ UNCHANGED <<downloads, image_cache>>
    /\ UNCHANGED nonImageVars

\* w.files.download answers: the StreamingResponse is returned and the
\* status line goes out before the first chunk is read.
DownloadAnswers ==
    /\ ipc = "download"
    /\ downloads' = downloads \cup {path_param}
    /\ image_resp' = [ image_resp EXCEPT
                         !.status = 200,
                         !.media_type = content_type(Suffix(path_param)),
                         !.fetch = "bytes" ]
    /\ ipc' = "stream"
    /\ UNCHANGED <<image_call, path_param, image_cache>>
    /\ UNCHANGED nonImageVars

\* w.files.download raises: the except branch answers 500.
DownloadRaises ==
    /\ ipc = "download"
    /\ downloads' = downloads \cup {path_param}
    /\ image_resp' = [ image_resp EXCEPT !.status = 500, !.complete = TRUE,
                                         !.fetch = "raise" ]
    /\ ipc' = "done"
    /\ UNCHANGED <<image_call, path_param, image_cache>>
    /\ UNCHANGED nonImageVars

\* iter_content: one chunk is read and sent; an empty read ends the body.
ReadChunk ==
    /\ ipc = "stream"
    /\ LET file == FileContents(path_param)
       IN  IF Len(image_resp.body) < Len(file)
           THEN /\ image_resp' =
                     [ image_resp EXCEPT
                         !.body = Append(@, file[Len(image_resp.body) + 1]) ]
                /\ ipc' = "stream"
           ELSE /\ image_resp' = [image_resp EXCEPT !.complete = TRUE]
                /\ ipc' = "done"
    /\ UNCHANGED <<image_call, path_param, downloads, image_cache>>
    /\ UNCHANGED nonImageVars

\* response.contents.read raises inside the generator: the status line has
\* gone out, the body stops short.
ReadRaises ==
    /\ ipc = "stream"
    /\ image_resp' = [image_resp EXCEPT !.fetch = "raise"]
    /\ ipc' = "done"
    /\ UNCHANGED <<image_call, path_param, downloads, image_cache>>
    /\ UNCHANGED nonImageVars

\* The caller has its answer; the next call may come.
ImageReturn ==
    /\ ipc = "done"
    /\ ipc' = "idle"
    /\ image_call' = "none"
    /\ path_param' = NoneSeq
    /\ image_resp' = NoImageResponse
    /\ UNCHANGED <<downloads, image_cache>>
    /\ UNCHANGED nonImageVars

InitImage ==
    /\ QueryIdle
    /\ FetchIdle
    /\ ImageIdle
    /\ SingletonIdle
    /\ SessionIdle

NextImage ==
    \/ load_image_from_volume
    \/ stream_image
    \/ DownloadAnswers
    \/ DownloadRaises
    \/ ReadChunk
    \/ ReadRaises
    \/ ImageReturn

SpecImage == InitImage /\ [][NextImage]_vars

\* ------------------------------------------- the singleton services
\* Warehouse and Lakebase: class attributes shared by every caller of
\* query, refreshed by _ensure_connection. Nothing in either class locks.

\* _CONNECTION_TIMEOUT_MINUTES
CONNECTION_TIMEOUT_MINUTES == 59

\* Expired as soon as the threshold is reached.
is_connection_expired_AtThreshold ==
    \/ connection_time = -1
    \/ clock - connection_time >= CONNECTION_TIMEOUT_MINUTES

\* _is_connection_expired: age > timedelta(minutes=59)
is_connection_expired ==
    \/ connection_time = -1
    \/ clock - connection_time > CONNECTION_TIMEOUT_MINUTES

InitSingleton(n) ==
    /\ QueryIdle
    /\ FetchIdle
    /\ ImageIdle
    /\ SessionIdle
    /\ service \in {"Warehouse", "Lakebase"}
    /\ callers = 1..n
    /\ clock = 0
    /\ handles = <<>>
    /\ connection = 0
    /\ connection_time = -1
    /\ spc = [c \in 1..n |-> "idle"]
    /\ call = [c \in 1..n |-> NoCall]

\* A caller enters query.
QueryCalled ==
    /\ \E c \in callers :
          /\ spc[c] = "idle"
          /\ spc' = [spc EXCEPT ![c] = "ensure"]
          /\ call' = [call EXCEPT ![c] = NoCall]
    /\ UNCHANGED <<service, callers, clock, handles, connection, connection_time>>
    /\ UNCHANGED nonSingletonVars

\* _ensure_connection: the test. Lakebase closes a connection it has
\* before it creates the next; Warehouse goes straight to the creation.
EnsureConnection ==
    /\ \E c \in callers :
          /\ spc[c] = "ensure"
          /\ LET stale == connection = 0 \/ is_connection_expired
             IN  /\ spc' = [spc EXCEPT ![c] =
                              IF ~stale THEN "query"
                              ELSE IF service = "Lakebase" /\ connection # 0
                                   THEN "close"
                              ELSE "create"]
                 /\ call' = [call EXCEPT ![c] =
                              [NoCall EXCEPT !.checked = TRUE,
                                             !.seen = connection,
                                             !.seen_time = connection_time]]
    /\ UNCHANGED <<service, callers, clock, handles, connection, connection_time>>
    /\ UNCHANGED nonSingletonVars

\* cls._connection.close(), on whatever cls._connection is by now.
CloseStale ==
    /\ \E c \in callers :
          /\ spc[c] = "close"
          /\ handles' = [handles EXCEPT ![connection].closed = TRUE]
          /\ spc' = [spc EXCEPT ![c] = "create"]
    /\ UNCHANGED <<service, callers, clock, connection, connection_time, call>>
    /\ UNCHANGED nonSingletonVars

\* _create_connection succeeds.
CreateConnection ==
    /\ Len(handles) < MaxHandles
    /\ \E c \in callers :
          /\ spc[c] = "create"
          /\ handles' = Append(handles, [closed |-> FALSE])
          /\ connection' = Len(handles) + 1
          /\ connection_time' = clock
          /\ spc' = [spc EXCEPT ![c] = "query"]
          /\ call' = [call EXCEPT ![c].created = Len(handles) + 1]
    /\ UNCHANGED <<service, callers, clock>>
    /\ UNCHANGED nonSingletonVars

\* _create_connection raises (a variable of the environment is missing,
\* the token or the connect fails): query ends, the attributes stay.
CreateRaises ==
    /\ \E c \in callers :
          /\ spc[c] = "create"
          /\ spc' = [spc EXCEPT ![c] = "idle"]
          /\ call' = [call EXCEPT ![c] = NoCall]
    /\ UNCHANGED <<service, callers, clock, handles, connection, connection_time>>
    /\ UNCHANGED nonSingletonVars

\* query takes cls._client or cls._connection as it is now and sends the
\* statement.
BeginQuery ==
    /\ \E c \in callers :
          /\ spc[c] = "query"
          /\ spc' = [spc EXCEPT ![c] = "run"]
          /\ call' = [call EXCEPT ![c].used = connection,
                                  ![c].used_time = connection_time]
    /\ UNCHANGED <<service, callers, clock, handles, connection, connection_time>>
    /\ UNCHANGED nonSingletonVars

\* The statement ends: rows, or an exception, which is all a closed
\* connection gives.
EndQuery ==
    /\ \E c \in callers, outcome \in {"rows", "raised"} :
          /\ spc[c] = "run"
          /\ handles[call[c].used].closed => outcome = "raised"
          /\ spc' = [spc EXCEPT ![c] = "idle"]
          /\ call' = [call EXCEPT ![c] = NoCall]
    /\ UNCHANGED <<service, callers, clock, handles, connection, connection_time>>
    /\ UNCHANGED nonSingletonVars

\* A minute passes. A call is over within the minute it began in
\* (wait_timeout="30s", connect_timeout=30).
ClockTick ==
    /\ clock < MaxClock
    /\ \A c \in callers : spc[c] = "idle"
    /\ clock' = clock + 1
    /\ UNCHANGED <<service, callers, handles, connection, connection_time,
                   spc, call>>
    /\ UNCHANGED nonSingletonVars

NextSingleton ==
    \/ QueryCalled
    \/ EnsureConnection
    \/ CloseStale
    \/ CreateConnection
    \/ CreateRaises
    \/ BeginQuery
    \/ EndQuery
    \/ ClockTick

\* One caller after the other.
InitSequential == InitSingleton(1)

SpecSequential == InitSequential /\ [][NextSingleton]_vars

\* Several callers at once.
InitConcurrent == InitSingleton(NumCallers)

SpecSingleton == InitConcurrent /\ [][NextSingleton]_vars

NextFetch ==
    \/ StartThread
    \/ ThreadRuns
    \/ Tick
    \/ Join
    \/ RenderImages

SpecFetch == InitFetch /\ [][NextFetch]_vars

\* The script thread keeps running and time passes; nothing obliges the
\* Blob Store to answer, so ThreadRuns has no fairness.
SpecFetchFair ==
    /\ SpecFetch
    /\ WF_vars(StartThread)
    /\ WF_vars(Tick)
    /\ WF_vars(Join)
    /\ WF_vars(RenderImages)

\* ------------------------------------------- one session of the page
\* main runs when the browser opens the page and again after every widget
\* event. st.session_state and the widgets last as long as the session;
\* a link with target="_self" makes the browser load the page anew, which
\* begins another session.

max(a, b) == IF a > b THEN a ELSE b
min(a, b) == IF a < b THEN a ELSE b

\* str(n), as an f-string and st.query_params write an int.
RECURSIVE DigitsOf(_)
DigitsOf(n) ==
    IF n < Len(Decimal) THEN <<Decimal[n + 1]>>
    ELSE DigitsOf(n \div Len(Decimal)) \o <<Decimal[(n % Len(Decimal)) + 1]>>

Str(n) == IF n < 0 THEN <<"-">> \o DigitsOf(0 - n) ELSE DigitsOf(n)

\* Row counts on both sides of each page boundary.
Counts ==
    {0} \cup { ITEMS_PER_PAGE * k : k \in 1..MaxPages }
        \cup { ITEMS_PER_PAGE * (k - 1) + 1 : k \in 1..MaxPages }

\* What the widgets may hold: the region, which load_inspections is not
\* given, and the prediction, which it is; the other widgets stay at
\* their defaults.
WidgetChoices == [ region : {"All", "WUH"}, prediction : {"All", "KO"} ]

\* The session a page load begins with.
NewSession(text) ==
    [ open |-> TRUE, last_filters |-> NoFilters, widgets |-> DefaultWidgets,
      url |-> text, rerun |-> FALSE ]

\* The page is reset on the first load too.
PageReset_AlsoFirstLoad(current_filters, last_filters) ==
    current_filters # last_filters

\* "if filters_changed and st.session_state.last_filters": an empty dict
\* is false.
PageReset(current_filters, last_filters) ==
    LET filters_changed == current_filters # last_filters
    IN  filters_changed /\ last_filters # NoFilters

\* load_inspections as main sees it: the pagination and the number of
\* inspections of the page. The except branch answers a negative OFFSET,
\* the stats of no rows (int(None)) and any failure of the Row Store.
LoadPage(count, page, raised) ==
    IF raised \/ Offset(page, ITEMS_PER_PAGE) < 0 \/ count = 0
    THEN [ rows |-> 0, page |-> 1, total_pages |-> 0, total_count |-> 0,
           error |-> TRUE ]
    ELSE [ rows        |-> min(ITEMS_PER_PAGE,
                               max(0, count - Offset(page, ITEMS_PER_PAGE))),
           page        |-> page,
           total_pages |-> TotalPages(count, ITEMS_PER_PAGE),
           total_count |-> count,
           error       |-> FALSE ]

\* Next is a link on the last page too.
Controls_NextAtLast(pagination) ==
    [ shown     |-> TRUE,
      prev_link |-> pagination.page > 1,
      prev_page |-> max(1, pagination.page - 1),
      next_link |-> pagination.page <= pagination.total_pages,
      next_page |-> min(pagination.total_pages, pagination.page + 1) ]

\* The Previous and Next controls.
Controls(pagination) ==
    [ shown     |-> TRUE,
      prev_link |-> pagination.page > 1,
      prev_page |-> max(1, pagination.page - 1),
      next_link |-> pagination.page < pagination.total_pages,
      next_page |-> min(pagination.total_pages, pagination.page + 1) ]

\* One run of main on the session s, reset telling whether the Reset
\* button was clicked and raised whether the Row Store fails.
RunMain(via, s, reset, raised) ==
    LET current_filters == s.widgets
        begun == [ NoRun EXCEPT !.via = via,
                                !.recorded = s.last_filters,
                                !.current_filters = current_filters,
                                !.url = s.url,
                                !.before = run.data ]
    IN  IF s.url # NoneSeq /\ ~IsInt(s.url)
        THEN \* int(query_params.get("page", 1)) raises ValueError
             /\ session' = [ s EXCEPT !.rerun = FALSE ]
             /\ run' = [ begun EXCEPT !.ended = "exception" ]
        ELSE LET url_page == IF s.url = NoneSeq THEN 1 ELSE ParseInt(s.url)
                 to_first == PageReset(current_filters, s.last_filters)
                 current_page == IF to_first THEN 1 ELSE url_page
                 url == IF to_first THEN Str(1) ELSE s.url
                 data == LoadPage(matching[current_filters.prediction],
                                  current_page, raised)
             IN  IF reset
                 THEN /\ session' = [ s EXCEPT !.url = Str(1),
                                               !.last_filters = NoFilters,
                                               !.rerun = TRUE ]
                      /\ run' = [ begun EXCEPT !.ended = "rerun" ]
                 ELSE IF data.rows = 0
                 THEN /\ session' = [ s EXCEPT !.url = url,
                                               !.last_filters = current_filters,
                                               !.rerun = FALSE ]
                      /\ run' = [ begun EXCEPT !.ended = "info",
                                               !.current_page = current_page,
                                               !.data = data ]
                 ELSE IF /\ data.page > data.total_pages
                         /\ data.total_pages > 0
                 THEN /\ session' = [ s EXCEPT !.url = Str(1),
                                               !.last_filters = current_filters,
                                               !.rerun = TRUE ]
                      /\ run' = [ begun EXCEPT !.ended = "rerun",
                                               !.current_page = current_page,
                                               !.data = data ]
                 ELSE /\ session' = [ s EXCEPT !.url = url,
                                               !.last_filters = current_filters,
                                               !.rerun = FALSE ]
                      /\ run' = [ begun EXCEPT !.ended = "grid",
                                               !.current_page = current_page,
                                               !.data = data,
                                               !.controls = Controls(data) ]

InitSession ==
    /\ QueryIdle
    /\ FetchIdle
    /\ ImageIdle
    /\ SingletonIdle
    /\ matching \in { m \in [ {"All", "KO"} -> Counts ] : m["KO"] <= m["All"] }
    /\ session = [ NewSession(NoneSeq) EXCEPT !.open = FALSE ]
    /\ run = NoRun

\* The browser loads the page at some URL.
OpenPage ==
    /\ ~session.rerun
    /\ \E text \in PageTexts, raised \in BOOLEAN :
          RunMain("open", NewSession(text), FALSE, raised)
    /\ UNCHANGED matching
    /\ UNCHANGED nonSessionVars

\* The user moves a widget of the sidebar.
ChangeFilter ==
    /\ session.open
    /\ ~session.rerun
    /\ \E w \in WidgetChoices \ {session.widgets}, raised \in BOOLEAN :
          RunMain("filter", [ session EXCEPT !.widgets = w ], FALSE, raised)
    /\ UNCHANGED matching
    /\ UNCHANGED nonSessionVars

\* "Apply Filters": the button only makes the script run again.
ClickApply ==
    /\ session.open
    /\ ~session.rerun
    /\ \E raised \in BOOLEAN : RunMain("apply", session, FALSE, raised)
    /\ UNCHANGED matching
    /\ UNCHANGED nonSessionVars

\* "Reset"
ClickReset ==
    /\ session.open
    /\ ~session.rerun
    /\ RunMain("reset", session, TRUE, FALSE)
    /\ UNCHANGED matching
    /\ UNCHANGED nonSessionVars

\* st.rerun(): the script runs again at once.
Rerun ==
    /\ session.rerun
    /\ \E raised \in BOOLEAN : RunMain("rerun", session, FALSE, raised)
    /\ UNCHANGED matching
    /\ UNCHANGED nonSessionVars

\* The Previous link: <a href="?page={prev_page}" target="_self">
ClickPrevious ==
    /\ ~session.rerun
    /\ run.controls.shown
    /\ run.controls.prev_link
    /\ \E raised \in BOOLEAN :
          RunMain("prev", NewSession(Str(run.controls.prev_page)), FALSE,
                  raised)
    /\ UNCHANGED matching
    /\ UNCHANGED nonSessionVars

\* The Next link: <a href="?page={next_page}" target="_self">
ClickNext ==
    /\ ~session.rerun
    /\ run.controls.shown
    /\ run.controls.next_link
    /\ \E raised \in BOOLEAN :
          RunMain("next", NewSession(Str(run.controls.next_page)), FALSE,
                  raised)
    /\ UNCHANGED matching
    /\ UNCHANGED nonSessionVars

NextSession ==
    \/ OpenPage
    \/ ChangeFilter
    \/ ClickApply
    \/ ClickReset
    \/ Rerun
    \/ ClickPrevious
    \/ ClickNext

SpecSession == InitSession /\ [][NextSession]_vars

\* ------------------------------------------------------------ properties

\* The caller received an envelope (an answer of load_inspections' except
\* branch included).
Answered == pc = "done" /\ resp.kind = "envelope"

\* The request went through: an envelope, and no exception on the way.
Succeeded == Answered /\ ~resp.error

\* The rows the count and page statements range over.
Matched == Selected(table, where_sql(args))

Min(a, b) == IF a < b THEN a ELSE b
Max(a, b) == IF a > b THEN a ELSE b

\* The least n with n * d >= a.
Ceil(a, d) == CHOOSE n \in 0..a : n * d >= a /\ (n = 0 \/ (n - 1) * d < a)

\* C1: every answered inspection query has total_pages equal to
\* ceil(total_count / per_page), and total_pages is 0 exactly when
\* total_count is 0.
C1_TotalPagesIsCeil ==
    Answered =>
        LET p == resp.pagination
        IN  /\ p.per_page >= 1
            /\ p.total_pages = Ceil(p.total_count, p.per_page)
            /\ (p.total_pages = 0 <=> p.total_count = 0)

\* C1 witness: a successful query whose last page is partly filled.
C1_PartialLastPage ==
    /\ Succeeded
    /\ resp.pagination.total_count = 3
    /\ resp.pagination.per_page = 2
    /\ resp.pagination.total_pages = 2

\* C2: the number of records of an answered query is
\* min(per_page, max(0, total_count - (page-1)*per_page)), and the k-th
\* record returned holds rank (page-1)*per_page + k by timestamp among the
\* matching rows.
C2_PageLength ==
    Answered =>
        LET p == resp.pagination
            first == (p.page - 1) * p.per_page
        IN  /\ Len(resp.inspections)
                 = Min(p.per_page, Max(0, p.total_count - first))
            /\ \A k \in 1..Len(resp.inspections) :
                 LET ts == resp.inspections[k].timestamp
                 IN  /\ Cardinality({ r \in Matched : Later(r.timestamp, ts) })
                          <= first + k - 1
                     /\ Cardinality({ r \in Matched : ~Later(ts, r.timestamp) })
                          >= first + k

\* C2 witness: page 2 of three matching rows at two per page holds one row.
C2_ShortLastPage ==
    /\ Succeeded
    /\ resp.pagination.page = 2
    /\ resp.pagination.per_page = 2
    /\ resp.pagination.total_count = 3
    /\ Len(resp.inspections) = 1

\* C3: when no row matches and the Row Store answers every statement, the
\* query succeeds with an empty, all-zero envelope.
C3_EmptyResultSucceeds ==
    (pc = "done" /\ ~outage /\ Matched = {}) =>
        /\ Succeeded
        /\ resp.inspections = <<>>
        /\ resp.pagination.total_count = 0
        /\ resp.pagination.total_pages = 0
        /\ resp.stats.ok_count = 0
        /\ resp.stats.ko_count = 0

\* Characters in code-point order.
CharOrder == <<"%", "-">> \o Digits \o <<"I", "_">>
CharRank(c) == CHOOSE k \in 1..Len(CharOrder) : CharOrder[k] = c

RECURSIVE StrLess(_, _)
StrLess(s1, s2) ==
    IF s2 = <<>> THEN FALSE
    ELSE IF s1 = <<>> THEN TRUE
    ELSE IF Head(s1) # Head(s2) THEN CharRank(Head(s1)) < CharRank(Head(s2))
    ELSE StrLess(Tail(s1), Tail(s2))

\* C4: the records of a returned page are in non-increasing timestamp
\* order, records with equal timestamps in ascending inspection_id order.
C4_PageOrdered ==
    Succeeded =>
        \A k \in 1..(Len(resp.inspections) - 1) :
            LET x == resp.inspections[k]
                y == resp.inspections[k + 1]
            IN  \/ Later(x.timestamp, y.timestamp)
                \/ /\ x.timestamp = y.timestamp
                   /\ StrLess(x.inspection_id, y.inspection_id)

\* C5: in every returned envelope ok_count + ko_count <= filtered <= total.
C5_StatsOrdered ==
    Succeeded =>
        /\ resp.stats.ok_count + resp.stats.ko_count <= resp.stats.filtered
        /\ resp.stats.filtered <= resp.stats.total

\* C6: stats.total counts every row of the table whatever the filters, and
\* stats.filtered is the count under the filters.
C6_TotalIsTableSize ==
    Succeeded =>
        /\ resp.stats.total = Cardinality(table)
        /\ resp.stats.filtered = resp.pagination.total_count

\* C7: ok_count and ko_count are the numbers of OK and KO rows among
\* exactly the rows the count and page statements matched.
C7_StatsOverMatchedRows ==
    Succeeded =>
        /\ resp.stats.ok_count
             = Cardinality({ r \in Matched : r.prediction = "OK" })
        /\ resp.stats.ko_count
             = Cardinality({ r \in Matched : r.prediction = "KO" })

\* s contains sub as a run of consecutive characters.
Contains(s, sub) ==
    \E k \in 0..(Len(s) - Len(sub)) : SubSeq(s, k + 1, k + Len(sub)) = sub

\* The conjunction of one term per present field, as the filter set reads.
Satisfies(r, a) ==
    /\ Truthy(a.factory) => r.factory_id = a.factory
    /\ Truthy(a.camera) => r.camera_id = a.camera
    /\ Truthy(a.prediction) => r.prediction = a.prediction
    /\ Truthy(a.defect_type) => r.defect_type = a.defect_type
    /\ TruthySeq(a.search) => Contains(r.inspection_id, a.search)
    /\ Truthy(a.date_from) =>
           \E d \in 1..Len(Dates) : Dates[d] = a.date_from /\ d <= r.date
    /\ Truthy(a.date_to) =>
           \E d \in 1..Len(Dates) : Dates[d] = a.date_to /\ r.date <= d

\* No filter field carries the sentinel "All".
NoSentinel(a) ==
    /\ a.region # "All" /\ a.factory # "All" /\ a.camera # "All"
    /\ a.prediction # "All" /\ a.defect_type # "All"

\* C8: a row is counted, and can be returned, iff it satisfies the term of
\* every present field; with no field present every row is counted.
C8_ConjunctivePredicate ==
    (Succeeded /\ NoSentinel(args)) =>
        /\ resp.pagination.total_count
             = Cardinality({ r \in table : Satisfies(r, args) })
        /\ \A k \in 1..Len(resp.inspections) :
             \E r \in table : /\ Satisfies(r, args)
                              /\ resp.inspections[k] = FormatInspection(r)

\* The caller asked for one region.
RegionPresent == raw.region # None /\ raw.region # "" /\ raw.region # "All"

InRegion(factory_id, region) ==
    \E f \in Factories : f.factory_id = factory_id /\ f.region = region

\* C9: with a region filter, total_count counts only rows of factories of
\* that region and every returned record is of such a factory.
C9_RegionConstrains ==
    (Succeeded /\ RegionPresent) =>
        /\ resp.pagination.total_count
             = Cardinality({ r \in Matched : InRegion(r.factory_id, raw.region) })
        /\ \A k \in 1..Len(resp.inspections) :
             InRegion(resp.inspections[k].factory_id, raw.region)

\* The caller's input with every "All" or empty filter value left out.
OmitStr(v) == IF v = "All" \/ v = "" THEN None ELSE v
Omitted(r) ==
    [ r EXCEPT !.region = OmitStr(@), !.factory = OmitStr(@),
               !.camera = OmitStr(@), !.prediction = OmitStr(@),
               !.defect_type = OmitStr(@),
               !.search = IF @ = <<>> THEN NoneSeq ELSE @,
               !.date_from = OmitStr(@), !.date_to = OmitStr(@) ]

\* The arguments the entry point hands to the handler's body.
HandlerArgs(e, r) == IF e = "main" THEN ConvertFilters(r) ELSE r

\* C10: the predicates built from a request are those built from the same
\* request with its "All" and empty filter values omitted.
C10_SentinelIsAbsent ==
    pc # "idle" =>
        LET b == HandlerArgs(entry, Omitted(raw))
        IN  /\ where_sql(args) = where_sql(b)
            /\ Truthy(args.region) = Truthy(b.region)

\* ---- C11: values never become part of the statement text

\* The request with every value that takes part in a statement replaced by
\* a placeholder; the set of fields that take part, the page and the page
\* size are kept.
Canon(a) ==
    [ a EXCEPT
        !.region      = IF Truthy(@) THEN "?" ELSE @,
        !.factory     = IF Truthy(@) THEN "?" ELSE @,
        !.camera      = IF Truthy(@) THEN "?" ELSE @,
        !.prediction  = IF Truthy(@) THEN "?" ELSE @,
        !.defect_type = IF Truthy(@) /\ @ # "All" THEN "?" ELSE @,
        !.search      = IF TruthySeq(@) THEN <<"?">> ELSE @,
        !.date_from   = IF Truthy(@) THEN "?" ELSE @,
        !.date_to     = IF Truthy(@) THEN "?" ELSE @ ]

\* C11: the text of every statement a request sends to the Row Store is the
\* text sent by the request that has the same fields present and other values
\* (here: a placeholder for every value), so no value is part of the text.
C11_TextIndependentOfValues ==
    \A k \in 1..Len(sent) :
        sent[k].statement.text
            = StatementAt(sent[k].statement.kind, Canon(args)).text

\* ---- C14: a failed query aborts the whole request

\* One of the statements of the request raised in the Row Store.
QueryFailed == \E k \in 1..Len(sent) : sent[k].raised

ZeroStats == [total |-> 0, filtered |-> 0, ok_count |-> 0, ko_count |-> 0]

QueryOrder == <<"count", "page", "stats">>

\* C15: the statements of one request are a prefix of count, page,
\* aggregate, and a statement that raised is the last one of the request.
C15_OrderedOnceNoRetry ==
    /\ Len(sent) <= Len(QueryOrder)
    /\ \A k \in 1..Len(sent) :
           /\ sent[k].statement.kind = QueryOrder[k]
           /\ sent[k].raised => k = Len(sent)

\* The page query raised and the request ended without an aggregate query.
C15_PageQueryFailed ==
    /\ pc = "done"
    /\ Len(sent) = 2
    /\ sent[2].raised

\* ---- C16: a page beyond the last one

\* C16: when the Row Store answers every statement and the requested page
\* lies beyond a last page that exists, the query succeeds with no
\* inspections, the requested page unchanged, and the total_count and
\* total_pages of the matching rows.
C16_PageBeyondLast ==
    (/\ pc = "done"
     /\ ~outage
     /\ Matched # {}
     /\ args.page > Ceil(Cardinality(Matched), args.per_page)) =>
        /\ Succeeded
        /\ resp.inspections = <<>>
        /\ resp.pagination.page = args.page
        /\ resp.pagination.total_count = Cardinality(Matched)
        /\ resp.pagination.total_pages
             = Ceil(Cardinality(Matched), args.per_page)

\* ---- C17: the Streamlit page resets an out-of-range page

\* C17: when the page taken from the URL exceeds a total_pages that is
\* positive, the rendered page sets the page to 1 and re-runs.
C17_OutOfRangePageIsReset ==
    (/\ ui.shown # "none"
     /\ ~resp.error
     /\ resp.pagination.total_pages > 0
     /\ resp.pagination.page > resp.pagination.total_pages) =>
        /\ ui.rerun
        /\ ui.page = 1

\* ---- C12: a string that is no calendar date

\* Strings of DateTexts that are not a calendar date.
NotACalendarDate(str) == str = "2025-02-30"

\* C12: a request whose date_from or date_to is no calendar date sends no
\* statement to the Row Store and ends with a 4xx answer.
C12_InvalidDateRefused ==
    (/\ entry # "none"
     /\ \/ NotACalendarDate(query_string.date_from)
        \/ NotACalendarDate(query_string.date_to)) =>
        /\ sent = <<>>
        /\ pc = "done" => resp.kind = "http422"

\* ---- C13: page and per_page are checked before the first query

\* page or per_page of the URL is not an integer in its range.
InvalidPageRequest ==
    \/ FailsGe(query_string.page, 1)
    \/ FailsGe(query_string.per_page, 1)
    \/ FailsLe(query_string.per_page, 100)

\* C13: at both entry points a page below 1 or a per_page outside 1..100
\* ends the request before any statement is sent, and an omitted page or
\* per_page is taken as 1 or 8.
C13_PageRequestChecked ==
    entry # "none" =>
        /\ InvalidPageRequest =>
              /\ sent = <<>>
              /\ pc = "done" => resp.kind \in {"http422", "exception"}
        /\ (~InvalidPageRequest /\ query_string.page = NoneSeq) =>
              args.page = 1
        /\ (~InvalidPageRequest /\ query_string.per_page = NoneSeq) =>
              args.per_page = 8

\* ---- C18: one slot per path, in input order

\* C18: after the render pass there is one slot per inspection, the thread
\* behind slot i was given the i-th image_path, and an image shown in slot
\* i is the file stored under the i-th image_path.
C18_SlotsFollowInput ==
    fpc = "done" =>
        /\ Len(shown) = Len(paths)
        /\ Len(threads) = Len(paths)
        /\ \A i \in 1..Len(paths) :
              /\ threads[i].image_path = paths[i]
              /\ shown[i].kind = "image" =>
                    shown[i].bytes = FileContents(paths[i])

\* Two different images are shown and the second thread ended first.
C18_CompletedOutOfOrder ==
    /\ fpc = "done"
    /\ Len(paths) = 2
    /\ paths[1] # paths[2]
    /\ shown[1].kind = "image"
    /\ shown[2].kind = "image"
    /\ threads[2].rank = 1
    /\ threads[1].rank = 2

\* ---- C19: every item has its own deadline

\* C19: a thread whose join timed out was given up no later than the
\* timeout, plus one second of slack, after it was started, whatever its
\* position and however long the joins before it took.
C19_OwnDeadline ==
    \A k \in 1..Len(waits) :
        waits[k].expired => waits[k].at - threads[k].started_at <= 10 + 1

\* ---- C20: a timed-out item stays timed out

\* C20: the slot of a thread whose join timed out never shows an image.
C20_LateBytesDiscarded ==
    fpc = "done" =>
        \A k \in 1..Len(waits) :
            waits[k].expired => shown[k].kind # "image"

\* ---- C21: three outcomes that match what happened

\* C21: once its join has returned, a thread holds bytes and no error
\* exactly when the Blob Store answered with the file before the wait
\* ended, an error and no bytes exactly when the download raised, and
\* neither exactly when the wait ended first; never both.
C21_OutcomeMatchesFetch ==
    \A k \in 1..Len(waits) :
        LET t == threads[k]
        IN  /\ ~(t.image_bytes # None /\ t.error # None)
            /\ (t.image_bytes # None /\ t.error = None)
                  <=> (t.fetch = "bytes" /\ ~waits[k].expired)
            /\ (t.error # None /\ t.image_bytes = None)
                  <=> t.fetch = "raise"
            /\ (t.image_bytes = None /\ t.error = None)
                  <=> waits[k].expired

\* ---- C22: a refused path never reaches the Blob Store

\* C22: no path that is empty or does not start with the allowed prefix is
\* ever handed to the download, by load_image_from_volume or by stream_image.
C22_RefusedNeverDownloaded ==
    \A p \in downloads :
        /\ p # <<>>
        /\ p # NoneSeq
        /\ p[1] = "/Volumes/serverless_opm_catalog/opm/quality/images-highres/"

\* A call with a path outside the prefix was answered after another path had
\* been downloaded.
C22_RefusedCallAnswered ==
    /\ ipc = "done"
    /\ path_param = <<"/tmp/", "photo1.jpg">>
    /\ downloads # {}

\* ---- C23: the status codes of GET /api/image

\* The path of the request is missing, empty or outside the prefix.
PathInvalid ==
    \/ path_param = NoneSeq
    \/ path_param = <<>>
    \/ path_param[1] # "/Volumes/serverless_opm_catalog/opm/quality/images-highres/"

\* C23: an answered GET /api/image has status 400 when the path is missing,
\* empty or outside the prefix, 500 when the Blob Store fetch failed, and
\* otherwise 200 with the whole file.
C23_ImageStatus ==
    (image_call = "App2" /\ ipc = "done") =>
        /\ PathInvalid => image_resp.status = 400
        /\ (~PathInvalid /\ image_resp.fetch = "raise") =>
              image_resp.status = 500
        /\ (~PathInvalid /\ image_resp.fetch # "raise") =>
              /\ image_resp.status = 200
              /\ image_resp.body = FileContents(path_param)

\* ---- C24: an image failure stays with its item

C25_WaitEnds ==
    <>(/\ fpc = "done"
       /\ \A k \in 1..Len(threads) :
             threads[k].alive => shown[k].kind # "image")

\* The page was rendered although no download ever answered.
C25_RenderedWithoutAnswers ==
    /\ fpc = "done"
    /\ Len(threads) = 2
    /\ \A k \in 1..Len(threads) :
          threads[k].alive /\ waits[k].expired /\ shown[k].kind # "image"

\* ---- C26: every fetch is dispatched before the first wait

\* C26: while threads are being started nothing has been waited for and no
\* time has passed; once the coordinator waits, every path of the page has
\* its thread, all started at the same time.
C26_DispatchedBeforeWaiting ==
    /\ fpc = "start" => (waits = <<>> /\ now = 0)
    /\ fpc \in {"join", "render", "done"} =>
          /\ Len(threads) = Len(paths)
          /\ \A k \in 1..Len(threads) : threads[k].started_at = 0

\* Both threads run and the first join has not returned.
C26_AllRunningAtFirstJoin ==
    /\ fpc = "join"
    /\ waits = <<>>
    /\ Len(threads) = 2
    /\ threads[1].alive
    /\ threads[2].alive

\* ---- C27: created when none exists or the one there is too old

\* C27: with one call after the other, a call creates a client or
\* connection only if there was none or the one it found was older than 59
\* minutes, always does so then unless the creation raises, otherwise runs
\* on the one it found; and whatever it runs on was at most 59 minutes old
\* when the call made its test.
C27_RefreshIffStale ==
    \A c \in callers :
        LET k     == call[c]
            stale == k.seen = 0 \/ clock - k.seen_time > CONNECTION_TIMEOUT_MINUTES
        IN  k.checked =>
              /\ k.created # 0 => stale
              /\ (stale /\ k.used # 0) => k.created = k.used
              /\ (~stale /\ k.used # 0) =>
                    /\ k.created = 0
                    /\ k.used = k.seen
                    /\ k.used_time = k.seen_time
              /\ k.used # 0 => clock - k.used_time <= CONNECTION_TIMEOUT_MINUTES

\* A call runs on the second connection, which it created itself: the
\* first one had been made at minute 0 and was found older than 59 minutes.
C27_ReplacedWhenTooOld ==
    /\ Len(handles) = 2
    /\ \E c \in callers :
          /\ spc[c] = "run"
          /\ call[c].seen = 1
          /\ call[c].seen_time = 0
          /\ call[c].created = 2
          /\ call[c].used = 2

\* ---- C28: one refresh at a time, no query on a closed handle

\* C28: at no time are two callers between the test of _ensure_connection
\* and the end of the creation, and no caller runs a statement on a
\* connection that has been closed.
C28_RefreshIsExclusive ==
    /\ Cardinality({ c \in callers : spc[c] \in {"close", "create"} }) <= 1
    /\ \A c \in callers :
          spc[c] = "run" => ~handles[call[c].used].closed

\* ---- C29: the page of the query follows the filter set

\* C29: a run of the page on which the filter selections differ from the
\* ones the previous run of the session recorded, that run having
\* recorded some, issues the inspection query, and for page 1, whatever
\* page the URL carries; every other run that issues the query (filters
\* unchanged, or nothing recorded as on the first run of a session) issues
\* it for the page of the URL, which is 1 when the URL names none.
C29_PageKeyedOffFilters ==
    LET differ == run.current_filters # run.recorded
        some   == run.recorded # NoFilters
        asked  == run.ended \in {"info", "grid"}
    IN  /\ (run.via # "none" /\ differ /\ some) =>
              /\ asked
              /\ run.current_page = 1
        /\ (asked /\ ~(differ /\ some)) =>
              run.current_page =
                  IF run.url = NoneSeq THEN 1 ELSE ParseInt(run.url)

\* The session was on page 2 of its URL when the region, which the query
\* does not take, was changed: the query went out for page 1.
C29_ResetByRegionAlone ==
    /\ run.via = "filter"
    /\ run.url = <<"2">>
    /\ run.recorded = DefaultWidgets
    /\ run.current_filters = [ DefaultWidgets EXCEPT !.region = "WUH" ]
    /\ run.ended = "grid"
    /\ run.current_page = 1
    /\ session.url = <<"1">>

\* ---- C30: Previous and Next stay within the pages

\* C30: when the page shown is one of 1..total_pages, Previous is a link
\* exactly when page > 1 and leads to page - 1, Next is a link exactly
\* when page < total_pages and leads to page + 1; and the run a click on
\* either begins, if it finds as many rows as the run before, shows the
\* neighbouring page, which is one of 1..total_pages.
C30_ControlsStayInRange ==
    LET d == run.data
        c == run.controls
        b == run.before
    IN  /\ (run.ended \in {"info", "grid"} /\ d.page \in 1..d.total_pages) =>
              /\ c.shown
              /\ c.prev_link <=> d.page > 1
              /\ c.prev_link => c.prev_page = d.page - 1
              /\ c.next_link <=> d.page < d.total_pages
              /\ c.next_link => c.next_page = d.page + 1
        /\ (run.via \in {"prev", "next"} /\ d.total_count = b.total_count) =>
              /\ d.page \in 1..d.total_pages
              /\ d.page = IF run.via = "next" THEN b.page + 1 ELSE b.page - 1

\* Next was clicked on page 1 of the most pages there are: page 2 is shown
\* with both links.
C30_MiddlePageAfterNext ==
    /\ run.via = "next"
    /\ run.before.page = 1
    /\ run.data.page = 2
    /\ run.data.total_pages = MaxPages
    /\ run.data.total_count = run.before.total_count
    /\ run.controls.prev_link
    /\ run.controls.next_link

====
